---------------------------- MODULE Spec2Model ----------------------------
(***************************************************************************)
(* Model of the snapshot-diff library (src/snapshot_diff.cpp,              *)
(* src/json_writer.h).  The three stages of GetSnapshotDiff are modelled   *)
(* as three state machines over disjoint groups of variables:              *)
(*                                                                         *)
(*   SpecRead    OpenStreamUnreliable + ReadRawDiff   (pagination)         *)
(*   SpecBucket  BucketizeDiff + SerializeBuckets, as called from          *)
(*               GetSnapshotDiff                                           *)
(*   SpecJson    GenerateJSON + MakeStatsJsonMap + JsonBool                *)
(*                                                                         *)
(* A line of a file is the sequence of its whitespace-delimited tokens     *)
(* (what operator>> extracts).  A token that the code only copies or       *)
(* compares as a whole is a string; a token whose characters the code      *)
(* inspects (the level token given to stoi, the entityType_opType tag      *)
(* searched for '_' and flag characters) is a sequence of one-character    *)
(* strings.  Diff lines carry at least three tokens (level, object id,     *)
(* payload), as the DiffRecord format prescribes.                          *)
(***************************************************************************)
EXTENDS Integers, Sequences, FiniteSets, TLC

VARIABLES
    \* ---- BucketizeDiff / SerializeBuckets / GetSnapshotDiff ----
    bpc,          \* position in GetSnapshotDiff's bucketize/serialize part
    nFiles,       \* readNum handed to BucketizeDiff
    fileNum,      \* BucketizeDiff's loop counter
    raw,          \* raw[i+1]: the lines of raw file i (as far as revealed)
    atEnd,        \* curFile was positioned at its end by seekg(0, end)
    buckets,      \* key -> content of the bucket file (sequence of entries)
    handles,      \* keys whose fstream* is open (not yet closed and deleted)
    bktResult,    \* BucketizeDiff's return value: "none", "true", "false"
    readErr,      \* some raw file's getline loop stopped without eof
    serRemaining, \* keys SerializeBuckets' iterator has not visited yet
    serialized,   \* content of serialized_diff
    serFail,      \* failbit of SerialDiffFile
    serResult,    \* SerializeBuckets' return value: "none", "true", "false"
    exitCode,     \* GetSnapshotDiff's return value, -1 while running
    \* ---- OpenStreamUnreliable / ReadRawDiff ----
    rpc,          \* position in ReadRawDiff
    eof,          \* ReadRawDiff's eof flag
    readNum,      \* ReadRawDiff's page counter
    startPoint,   \* the running cookie
    numRetryReads,\* ReadRawDiff's read-retry counter
    numRetries,   \* OpenStreamUnreliable's counter
    openCalls,    \* open() calls made by the current OpenStreamUnreliable
    lastErrno,    \* errno of the last failed open(): "none", "ENOENT", "EACCES"
    rawFiles,     \* the raw directory: file number -> lines
    localLines,   \* lines of localFile still to be read by getline
    localOpen,    \* localFile is open
    fetched,      \* pages copied completely, in order, with the cookie used
    badPage,      \* cookie of the page that last read bad
    pageBad,      \* bad reads of that page so far
    opened,       \* calls of OpenStreamUnreliable that returned 0
    readResult,   \* ReadRawDiff's return value, -2 while running
    \* ---- GenerateJSON ----
    jpc,          \* position in GenerateJSON
    done,         \* GenerateJSON's done flag
    jsonFileCount,\* GenerateJSON's document counter
    itemCount,    \* diffItems.size()
    lastItem,     \* diffItems.back(), or NoItem
    lastLine,     \* the record that diffItems.back() was made from
    lastStatOk,   \* what MakeStatsJsonMap returned for that record, if called
    docs,         \* file number -> number of events of <n>.json
    nClass,       \* records of entity type FILE, DIR or SYM read so far
    nSkipped,     \* records of any other entity type read so far
    jsonResult    \* GenerateJSON's return value: "none", "true", "false"

bvars == <<bpc, nFiles, fileNum, raw, atEnd, buckets, handles, bktResult,
           readErr, serRemaining, serialized, serFail, serResult, exitCode>>
rvars == <<rpc, eof, readNum, startPoint, numRetryReads, numRetries,
           openCalls, lastErrno, rawFiles, localLines, localOpen, fetched,
           badPage, pageBad, opened, readResult>>
jvars == <<jpc, done, jsonFileCount, itemCount, lastItem, lastLine,
           lastStatOk, docs, nClass, nSkipped, jsonResult>>
vars == <<bvars, rvars, jvars>>

-----------------------------------------------------------------------------
(* Bounds of the model.                                                    *)

\* Raw files handed to BucketizeDiff.
MaxFiles == 2
\* Lines of all raw files together.
MaxLines == 4
\* Lines of a raw file that BucketizeDiff leaves unread.
MaxTail == 1
\* Pages ReadRawDiff copies completely.
MaxPages == 3
\* Records of a known entity type that GenerateJSON reads.
MaxRecords == 2001
\* Records of an unknown entity type that GenerateJSON reads.
MaxSkipped == 2

(* Program constants.                                                      *)
MAX_RETRIES == 10
BATCH_LIMIT == 1000
LEVEL_OFFSET == 513

-----------------------------------------------------------------------------
(* Helpers on sequences and sets.                                          *)

RECURSIVE SeqsUpTo(_, _)
SeqsUpTo(S, n) ==
    IF n = 0 THEN {<<>>}
    ELSE LET shorter == SeqsUpTo(S, n - 1)
         IN  shorter \cup {Append(s, x) : s \in {t \in shorter : Len(t) = n - 1}, x \in S}

RECURSIVE Flatten(_)
Flatten(ss) == IF ss = <<>> THEN <<>> ELSE Head(ss) \o Flatten(Tail(ss))

RECURSIVE SumLen(_)
SumLen(ss) == IF ss = <<>> THEN 0 ELSE Len(Head(ss)) + SumLen(Tail(ss))

MinOf(S) == CHOOSE x \in S : \A y \in S : x <= y

-----------------------------------------------------------------------------
(* Token parsing.                                                          *)

DigitVal(c) ==
    CASE c = "0" -> 0 [] c = "1" -> 1 [] c = "2" -> 2 [] c = "3" -> 3
      [] c = "4" -> 4 [] c = "5" -> 5 [] c = "6" -> 6 [] c = "7" -> 7
      [] c = "8" -> 8 [] c = "9" -> 9

RECURSIVE DigitsVal(_, _)
DigitsVal(cs, acc) ==
    IF cs = <<>> THEN acc ELSE DigitsVal(Tail(cs), 10 * acc + DigitVal(Head(cs)))

\* std::stoi on a token made of an optional sign and decimal digits.
Stoi(cs) ==
    IF Head(cs) = "-" THEN 0 - DigitsVal(Tail(cs), 0)
    ELSE IF Head(cs) = "+" THEN DigitsVal(Tail(cs), 0)
    ELSE DigitsVal(cs, 0)

\* Mutant of Normalize: the offset is subtracted from, not added to, the level.
NormalizeFlipped(level) == LEVEL_OFFSET - level

\* "level = stoi(s) + 513".
Normalize(level) == level + LEVEL_OFFSET

\* The bucket key of a raw line.
KeyOf(line) == Normalize(Stoi(line[1]))

\* The tokens BucketizeDiff joins with tabs: the third token and all after it.
Payload(line) == SubSeq(line, 3, Len(line))

\* "str != "EOB" && str != "EOF"" negated: the joined payload is a sentinel.
IsSentinel(str) == str = <<"EOB">> \/ str = <<"EOF">>

-----------------------------------------------------------------------------
(* BucketizeDiff, SerializeBuckets and their call in GetSnapshotDiff.      *)

\* The raw lines BucketizeDiff is fed: data lines on levels -513 and 0,
\* sentinels on levels -3 and 0 (the first a level below some data lines and
\* with no data line of its own), and a data line whose payload starts with
\* EOB.
BLineSet ==
    { << <<"-", "5", "1", "3">>, "o1", "FILE_C", "/a" >>,
      << <<"0">>,                "o2", "DIR_C", "/b" >>,
      << <<"-", "3">>,           "o3", "EOB" >>,
      << <<"0">>,                "o4", "EOF" >>,
      << <<"-", "2">>,           "o5", "EOB", "/x" >> }

\* GetSnapshotDiff calls BucketizeDiff with the page count that
\* ReadRawDiff returned.
GsdCallBucketize ==
    /\ bpc = "start"
    /\ \E n \in 0..MaxFiles : nFiles' = n
    /\ bpc' = "mkdir"
    /\ UNCHANGED <<fileNum, raw, atEnd, buckets, handles, bktResult, readErr,
                   serRemaining, serialized, serFail, serResult, exitCode>>
    /\ UNCHANGED <<rvars, jvars>>

\* BucketizeDiff returns false.
BktFail ==
    /\ bktResult' = "false"
    /\ bpc' = "bktReturned"

\* "int status = MkDir(bucketsDir)": the directory is created or not.
BktMkDir ==
    /\ bpc = "mkdir"
    /\ \E ok \in BOOLEAN :
          IF ok THEN bpc' = "fileLoop" /\ bktResult' = bktResult
                ELSE BktFail
    /\ UNCHANGED <<nFiles, fileNum, raw, atEnd, buckets, handles, readErr,
                   serRemaining, serialized, serFail, serResult, exitCode>>
    /\ UNCHANGED <<rvars, jvars>>

\* "ifstream curFile{curFileName}" for the next raw file: opened or not.
BktOpenRaw ==
    /\ bpc = "fileLoop"
    /\ fileNum < nFiles
    /\ \E ok \in BOOLEAN :
          IF ok THEN /\ raw' = Append(raw, <<>>)
                     /\ atEnd' = FALSE
                     /\ bpc' = "lines"
                     /\ bktResult' = bktResult
                ELSE /\ BktFail
                     /\ UNCHANGED <<raw, atEnd>>
    /\ UNCHANGED <<nFiles, fileNum, buckets, handles, readErr,
                   serRemaining, serialized, serFail, serResult, exitCode>>
    /\ UNCHANGED <<rvars, jvars>>

\* The lines that may follow the last line read in a raw file without being
\* read: at most MaxTail, and within the bound on all lines.
UnreadTails(used) ==
    LET room == MaxLines - used
    IN  SeqsUpTo(BLineSet, IF room < MaxTail THEN room ELSE MaxTail)

\* The raw files with `line` read as the next line of the current file.
RawWith(line) == [raw EXCEPT ![fileNum + 1] = Append(@, line)]

\* The bucket entry written for `line`: its joined payload, tagged with the
\* place of the line (raw file, line number) it was made from.
EntryOf(line) ==
    [src |-> <<fileNum, Len(raw[fileNum + 1]) + 1>>, text |-> Payload(line)]

\* "!buckets.count(level)".
BucketMissing(bs, key) == key \notin DOMAIN bs

\* buckets[level] after "buckets[level] = curBucketFile.release()" on a
\* file opened with trunc: an empty bucket file.
WithBucket(bs, key) ==
    [k \in DOMAIN bs \cup {key} |-> IF k = key THEN <<>> ELSE bs[k]]

\* Mutant of WriteLine: the line replaces the bucket's content.
WriteLineOverwrite(bs, key, e) == [bs EXCEPT ![key] = <<e>>]

\* "*buckets[level] << str << endl".
WriteLine(bs, key, e) == [bs EXCEPT ![key] = Append(@, e)]

\* One iteration of "while (getline(curFile, diffLine))" that reads a line:
\* the bucket of its level is created if missing (the open may fail), then
\* the payload is written, or for a sentinel the file is sought to its end
\* (the lines `tail` that follow it are never read).
BktLine ==
    /\ bpc = "lines"
    /\ ~atEnd
    /\ SumLen(raw) < MaxLines
    /\ \E line \in BLineSet, created \in BOOLEAN :
          LET key == KeyOf(line)
              missing == BucketMissing(buckets, key)
              bs == IF missing THEN WithBucket(buckets, key) ELSE buckets
          IN  IF missing /\ ~created
              THEN /\ BktFail
                   /\ raw' = RawWith(line)
                   /\ UNCHANGED <<atEnd, buckets, handles>>
              ELSE /\ created
                   /\ handles' = IF missing THEN handles \cup {key} ELSE handles
                   /\ UNCHANGED <<bpc, bktResult>>
                   /\ IF ~IsSentinel(Payload(line))
                      THEN /\ buckets' = WriteLine(bs, key, EntryOf(line))
                           /\ raw' = RawWith(line)
                           /\ atEnd' = FALSE
                      ELSE /\ buckets' = bs
                           /\ atEnd' = TRUE
                           /\ \E tail \in UnreadTails(SumLen(raw) + 1) :
                                 raw' = [raw EXCEPT ![fileNum + 1] =
                                            Append(@, line) \o tail]
    /\ UNCHANGED <<nFiles, fileNum, readErr, serRemaining, serialized,
                   serFail, serResult, exitCode>>
    /\ UNCHANGED <<rvars, jvars>>

\* getline fails and the loop ends: at a clean end of file, or on a read
\* error that leaves the lines `tail` unread ("if (!curFile.eof())
\* LOG_ERROR", and the for loop goes on).
BktEndOfFile ==
    /\ bpc = "lines"
    /\ \E clean \in BOOLEAN :
          /\ readErr' = (readErr \/ ~clean)
          /\ \E tail \in UnreadTails(SumLen(raw)) :
                /\ clean => tail = <<>>
                /\ raw' = [raw EXCEPT ![fileNum + 1] = @ \o tail]
    /\ fileNum' = fileNum + 1
    /\ bpc' = "fileLoop"
    /\ UNCHANGED <<nFiles, atEnd, buckets, handles, bktResult,
                   serRemaining, serialized, serFail, serResult, exitCode>>
    /\ UNCHANGED <<rvars, jvars>>

\* "return true" after the for loop.
BktReturnTrue ==
    /\ bpc = "fileLoop"
    /\ fileNum = nFiles
    /\ bktResult' = "true"
    /\ bpc' = "bktReturned"
    /\ UNCHANGED <<nFiles, fileNum, raw, atEnd, buckets, handles, readErr,
                   serRemaining, serialized, serFail, serResult, exitCode>>
    /\ UNCHANGED <<rvars, jvars>>

\* GetSnapshotDiff: "if (!BucketizeDiff(...)) return 1", else SerializeBuckets
\* is called.
GsdAfterBucketize ==
    /\ bpc = "bktReturned"
    /\ IF bktResult = "false"
       THEN exitCode' = 1 /\ bpc' = "exit"
       ELSE exitCode' = exitCode /\ bpc' = "serOpen"
    /\ UNCHANGED <<nFiles, fileNum, raw, atEnd, buckets, handles, bktResult,
                   readErr, serRemaining, serialized, serFail, serResult>>
    /\ UNCHANGED <<rvars, jvars>>

\* "ofstream SerialDiffFile{serialDiffFileName}": created or not; if not,
\* SerializeBuckets returns false at once.
SerOpen ==
    /\ bpc = "serOpen"
    /\ \E ok \in BOOLEAN :
          IF ok THEN /\ serRemaining' = DOMAIN buckets
                     /\ bpc' = "serLoop"
                     /\ serResult' = serResult
                ELSE /\ serResult' = "false"
                     /\ bpc' = "serReturned"
                     /\ serRemaining' = serRemaining
    /\ UNCHANGED <<nFiles, fileNum, raw, atEnd, buckets, handles, bktResult,
                   readErr, serialized, serFail, exitCode>>
    /\ UNCHANGED <<rvars, jvars>>

\* The iterator of the std::map<int, fstream*>: the smallest key not yet
\* visited.
NextKey(keys) == MinOf(keys)

\* "SerialDiffFile << itr->second->rdbuf()": nothing is inserted into a
\* stream that has failed; an insertion of no characters sets failbit.
Inserted(out, failed, content) ==
    IF failed THEN [text |-> out, fail |-> TRUE]
    ELSE IF content = <<>> THEN [text |-> out, fail |-> TRUE]
    ELSE [text |-> out \o content, fail |-> FALSE]

\* One iteration of SerializeBuckets' loop: copy the bucket, close and
\* delete its stream.
SerBucket ==
    /\ bpc = "serLoop"
    /\ serRemaining # {}
    /\ LET k == NextKey(serRemaining)
           r == Inserted(serialized, serFail, buckets[k])
       IN  /\ serialized' = r.text
           /\ serFail' = r.fail
           /\ handles' = handles \ {k}
           /\ serRemaining' = serRemaining \ {k}
    /\ UNCHANGED <<bpc, nFiles, fileNum, raw, atEnd, buckets, bktResult,
                   readErr, serResult, exitCode>>
    /\ UNCHANGED <<rvars, jvars>>

\* "SerialDiffFile.close(); return true".
SerReturnTrue ==
    /\ bpc = "serLoop"
    /\ serRemaining = {}
    /\ serResult' = "true"
    /\ bpc' = "serReturned"
    /\ UNCHANGED <<nFiles, fileNum, raw, atEnd, buckets, handles, bktResult,
                   readErr, serRemaining, serialized, serFail, exitCode>>
    /\ UNCHANGED <<rvars, jvars>>

\* GetSnapshotDiff: "if (!SerializeBuckets(...)) return 1"; otherwise it
\* goes on to the JSON stage.
GsdAfterSerialize ==
    /\ bpc = "serReturned"
    /\ IF serResult = "false"
       THEN exitCode' = 1 /\ bpc' = "exit"
       ELSE exitCode' = exitCode /\ bpc' = "jsonStage"
    /\ UNCHANGED <<nFiles, fileNum, raw, atEnd, buckets, handles, bktResult,
                   readErr, serRemaining, serialized, serFail, serResult>>
    /\ UNCHANGED <<rvars, jvars>>

BNext ==
    \/ GsdCallBucketize
    \/ BktMkDir
    \/ BktOpenRaw
    \/ BktLine
    \/ BktEndOfFile
    \/ BktReturnTrue
    \/ GsdAfterBucketize
    \/ SerOpen
    \/ SerBucket
    \/ SerReturnTrue
    \/ GsdAfterSerialize

-----------------------------------------------------------------------------
(* OpenStreamUnreliable and ReadRawDiff.                                   *)

DataLine1 == << <<"1">>, "c1", "FILE_C", "/a" >>
DataLine2 == << <<"2">>, "c2", "DIR_C", "/b" >>
EobLine   == << <<"0">>, "c3", "EOB" >>
EofLine   == << <<"0">>, "c4", "EOF" >>

\* The pages the upstream producer may serve: pages closed by EOB or EOF
\* with and without data lines, a page with no sentinel, and a page with a
\* line after its sentinel.
RPages ==
    { <<DataLine1, DataLine2, EobLine>>, <<EobLine>>,
      <<DataLine2, EofLine>>, <<EofLine>>,
      <<DataLine1>>, <<EobLine, DataLine2>> }

\* What a copy that was cut short by a bad read leaves in the local file.
RPartial == { <<>>, <<DataLine1>> }

\* "return -1".
RdFail(at) ==
    /\ rpc' = at
    /\ readResult' = -1

\* "while (!eof)" is left: "return readNum".
RdReturn ==
    /\ rpc = "loop"
    /\ eof
    /\ rpc' = "done"
    /\ readResult' = readNum
    /\ UNCHANGED <<eof, readNum, startPoint, numRetryReads, numRetries,
                   openCalls, lastErrno, rawFiles, localLines, localOpen,
                   fetched, badPage, pageBad, opened>>
    /\ UNCHANGED <<bvars, jvars>>

\* A loop iteration starts: OpenStreamUnreliable is called for the page of
\* the running cookie ("int numRetries = 0").
RdCallOpen ==
    /\ rpc = "loop"
    /\ ~eof
    /\ Len(fetched) < MaxPages
    /\ rpc' = "open"
    /\ numRetries' = 0
    /\ openCalls' = 0
    /\ lastErrno' = "none"
    /\ UNCHANGED <<eof, readNum, startPoint, numRetryReads, rawFiles,
                   localLines, localOpen, fetched, badPage, pageBad, opened,
                   readResult>>
    /\ UNCHANGED <<bvars, jvars>>

\* Mutant of RetryAgain: the counter is incremented before the comparison.
RetryAgainPreIncrement(n) == n + 1 < MAX_RETRIES

\* "while (numRetries++ < MAX_RETRIES)": the value compared is the one
\* before the increment.
RetryAgain(n) == n < MAX_RETRIES

\* One iteration of OpenStreamUnreliable's do-while: open() succeeds, fails
\* with ENOENT (retried while the loop condition holds) or fails otherwise
\* (break).  A stream that is not open makes OpenStreamUnreliable return 1
\* and ReadRawDiff return -1.
OpenAttempt ==
    /\ rpc = "open"
    /\ openCalls' = openCalls + 1
    /\ \E outcome \in {"ok", "ENOENT", "EACCES"} :
          CASE outcome = "ok" ->
                  /\ rpc' = "openLocal"
                  /\ opened' = opened + 1
                  /\ UNCHANGED <<numRetries, lastErrno, readResult>>
            [] outcome = "EACCES" ->
                  /\ RdFail("failOpen")
                  /\ lastErrno' = "EACCES"
                  /\ UNCHANGED <<numRetries, opened>>
            [] outcome = "ENOENT" ->
                  /\ lastErrno' = "ENOENT"
                  /\ numRetries' = numRetries + 1
                  /\ opened' = opened
                  /\ IF RetryAgain(numRetries)
                     THEN UNCHANGED <<rpc, readResult>>
                     ELSE RdFail("failOpen")
    /\ UNCHANGED <<eof, readNum, startPoint, numRetryReads, rawFiles,
                   localLines, localOpen, fetched, badPage, pageBad>>
    /\ UNCHANGED <<bvars, jvars>>

\* The raw directory with file n holding `lines`.
WithFile(files, n, lines) ==
    [k \in DOMAIN files \cup {n} |-> IF k = n THEN lines ELSE files[k]]

\* "fstream localFile{localFileName, in | out | trunc}" for file readNum:
\* created empty (an older file of that number is truncated), or not opened.
RdOpenLocal ==
    /\ rpc = "openLocal"
    /\ \E ok \in BOOLEAN :
          IF ok THEN /\ rawFiles' = WithFile(rawFiles, readNum, <<>>)
                     /\ localOpen' = TRUE
                     /\ rpc' = "copy"
                     /\ readResult' = readResult
                ELSE /\ RdFail("failLocal")
                     /\ UNCHANGED <<rawFiles, localOpen>>
    /\ UNCHANGED <<eof, readNum, startPoint, numRetryReads, numRetries,
                   openCalls, lastErrno, localLines, fetched, badPage, pageBad, opened>>
    /\ UNCHANGED <<bvars, jvars>>

\* "if (numRetryReads == MAX_RETRIES)".
RetriesSpent(n) == n = MAX_RETRIES

\* The copy loop and the check of statusBad.  A read that went bad leaves a
\* partial copy; it is fatal if the retries are spent, else it is counted
\* and the loop continues with the same cookie and the same page number.
\* A complete copy is followed by the parse of the local file.
RdCopy ==
    /\ rpc = "copy"
    /\ \E page \in RPages, statusBad \in BOOLEAN :
          IF statusBad
          THEN /\ \E part \in RPartial :
                     rawFiles' = WithFile(rawFiles, readNum, part)
               /\ badPage' = startPoint
               /\ pageBad' = IF badPage = startPoint THEN pageBad + 1 ELSE 1
               /\ localOpen' = FALSE
               /\ IF RetriesSpent(numRetryReads)
                  THEN /\ RdFail("failRead")
                       /\ numRetryReads' = numRetryReads
                  ELSE /\ numRetryReads' = numRetryReads + 1
                       /\ rpc' = "loop"
                       /\ readResult' = readResult
               /\ UNCHANGED <<localLines, fetched>>
          ELSE /\ rawFiles' = WithFile(rawFiles, readNum, page)
               /\ localLines' = page
               /\ fetched' = Append(fetched,
                     [cookie |-> startPoint, num |-> readNum, page |-> page])
               /\ rpc' = "parse"
               /\ UNCHANGED <<localOpen, numRetryReads, badPage, pageBad,
                              readResult>>
    /\ UNCHANGED <<eof, readNum, startPoint, numRetries, openCalls,
                   lastErrno, opened>>
    /\ UNCHANGED <<bvars, jvars>>

\* The three extractions "currCookie = s; lineStream >> s" on a line of at
\* least three tokens: s is the third token, currCookie the second.
ScanThree(line) == [s |-> line[3], currCookie |-> line[2]]

\* Mutant of IsStreamEnd: EOB is taken for EOF.
IsStreamEndAnySentinel(s) == s = "EOB" \/ s = "EOF"

\* "else if (s == "EOF")": the branch that sets eof.
IsStreamEnd(s) == s = "EOF"

\* Mutant of IsPageEnd: only EOF closes the page, EOB is parsed as data.
IsPageEndEofOnly(s) == s = "EOF"

\* "if (s == "EOB") ... else if (s == "EOF")": the branches that close the
\* local file and increment readNum.
IsPageEnd(s) == s = "EOB" \/ s = "EOF"

\* One iteration of "while (getline(localFile, diffLine))" that reads a
\* line: EOB and EOF close the local file and count the page, EOF also ends
\* the pagination; any other line moves the cookie.
RdParseLine ==
    /\ rpc = "parse"
    /\ localOpen
    /\ localLines # <<>>
    /\ LET t == ScanThree(Head(localLines))
       IN  IF IsPageEnd(t.s)
           THEN /\ localOpen' = FALSE
                /\ readNum' = readNum + 1
                /\ eof' = (eof \/ IsStreamEnd(t.s))
                /\ UNCHANGED startPoint
           ELSE /\ startPoint' = t.currCookie
                /\ UNCHANGED <<eof, readNum, localOpen>>
    /\ localLines' = Tail(localLines)
    /\ UNCHANGED <<rpc, numRetryReads, numRetries, openCalls, lastErrno,
                   rawFiles, fetched, badPage, pageBad, opened, readResult>>
    /\ UNCHANGED <<bvars, jvars>>

\* getline fails: the local file was closed or is at its end (eof() holds,
\* the outer loop goes on), or a read of the open local file failed
\* ("if (!localFile.eof()) return -1").
RdParseEnd ==
    /\ rpc = "parse"
    /\ \/ /\ ~localOpen \/ localLines = <<>>
          /\ rpc' = "loop"
          /\ readResult' = readResult
       \/ /\ localOpen
          /\ RdFail("failParse")
    /\ localOpen' = FALSE
    /\ localLines' = <<>>
    /\ UNCHANGED <<eof, readNum, startPoint, numRetryReads, numRetries,
                   openCalls, lastErrno, rawFiles, fetched, badPage, pageBad, opened>>
    /\ UNCHANGED <<bvars, jvars>>

RNext ==
    \/ RdReturn
    \/ RdCallOpen
    \/ OpenAttempt
    \/ RdOpenLocal
    \/ RdCopy
    \/ RdParseLine
    \/ RdParseEnd

-----------------------------------------------------------------------------
(* The JSON value tree (json_writer.h) as far as GenerateJSON builds it.    *)

\* JsonBool(bool val) called with a string literal: the const char* converts
\* to bool, and a pointer to a literal is not null.
JsonBoolOfLiteral(lit) == TRUE

\* JsonBool(bool val) called with a bool.
JsonBool(val) == val

\* JsonMap::Add: std::map::insert, which keeps the value of a key that is
\* already present.
Add(map, key, val) == IF key \in DOMAIN map THEN map ELSE map @@ (key :> val)

\* A new JsonMap.
EmptyMap == <<>>

-----------------------------------------------------------------------------
(* GenerateJSON and MakeStatsJsonMap.                                      *)

\* Records of serialized_diff: the tag token by characters, then the path
\* and any further token.
JLineSet ==
    { << <<"F", "I", "L", "E", "_", "M">>, "/a" >>,
      << <<"F", "I", "L", "E", "_", "C", "M", "S", "X">>, "/a" >>,
      << <<"D", "I", "R", "_", "C">>, "/b" >>,
      << <<"S", "Y", "M", "_", "C", "M">>, "/a/link", "/a/target" >>,
      << <<"S", "Y", "M", "_", "S">>, "/s" >>,
      << <<"F", "I", "L", "E", "_", "D", "E", "L", "E", "T", "E">>, "/a" >>,
      << <<"D", "I", "R", "_", "R", "E", "N", "A", "M", "E">>, "/o", "/n" >>,
      << <<"S", "Y", "M", "_", "D", "E", "L", "E", "T", "E">>, "/l" >>,
      << <<"F", "O", "O", "_", "X">>, "/z" >> }

\* std::string::find of a character: its first position (from 0), or -1
\* (npos converted to int).
Find(cs, c) ==
    IF \E i \in 1..Len(cs) : cs[i] = c
    THEN MinOf({i \in 1..Len(cs) : cs[i] = c}) - 1
    ELSE -1

\* std::string::substr(pos, count): count is a size_t, so a negative count
\* is npos; the result ends with the string.
Substr(cs, pos, count) ==
    LET last == IF count < 0 \/ pos + count > Len(cs) THEN Len(cs) ELSE pos + count
    IN  SubSeq(cs, pos + 1, last)

\* "op.substr(0, split)" with "split = op.find("_")".
EntryType(op) == Substr(op, 0, Find(op, "_"))

\* "op.substr(split + 1, op.length())".
OpType(op) == Substr(op, Find(op, "_") + 1, Len(op))

\* "optype.find(c) != string::npos".
HasFlag(optype, c) == Find(optype, c) # -1

FILE_ == <<"F", "I", "L", "E">>
DIR_ == <<"D", "I", "R">>
SYM_ == <<"S", "Y", "M">>
DELETE_ == <<"D", "E", "L", "E", "T", "E">>
RENAME_ == <<"R", "E", "N", "A", "M", "E">>

\* MakeStatsJsonMap: on a successful lstat the map gains size, atime,
\* ctime, mtime and path; on a failed one nothing is added.
MakeStatsJsonMap(map, path, statOk) ==
    IF statOk
    THEN Add(Add(Add(Add(Add(map, "size", "st_size"), "atime", "st_atim"),
                 "ctime", "st_ctim"), "mtime", "st_mtim"), "path", path)
    ELSE map

\* Whether GenerateJSON pushes an event for a record of this entity type.
Classified(line) == EntryType(line[1]) \in {FILE_, DIR_, SYM_}

\* The record takes a branch that calls MakeStatsJsonMap.
IsCreateModify(line) ==
    LET et == EntryType(line[1])
        ot == OpType(line[1])
    IN  \/ et \in {FILE_, DIR_} /\ ot \notin {DELETE_, RENAME_}
        \/ et = SYM_ /\ ot # DELETE_

\* The JsonMap GenerateJSON builds for a classified record.
EventOf(line, statOk) ==
    LET et == EntryType(line[1])
        ot == OpType(line[1])
        path == line[2]
        flag(c) == JsonBoolOfLiteral(IF HasFlag(ot, c) THEN "true" ELSE "false")
    IN  IF et \in {FILE_, DIR_}
        THEN IF ot = DELETE_
             THEN Add(Add(Add(EmptyMap, "type", "delete"),
                          "object_type", IF et = FILE_ THEN "file" ELSE "dir"),
                      "path", path)
             ELSE IF ot = RENAME_
             THEN Add(Add(Add(EmptyMap, "type", "rename"),
                          "path_old", path), "path_new", line[3])
             ELSE Add(Add(Add(Add(Add(MakeStatsJsonMap(EmptyMap, path, statOk),
                      "type", IF et = FILE_ THEN "file" ELSE "dir"),
                      "created", flag("C")),
                      "modified", flag("M")),
                      "stat", flag("S")),
                      "xattr", flag("X"))
        ELSE IF ot = DELETE_
             THEN Add(Add(Add(EmptyMap, "type", "delete"),
                          "object_type", "symlink"), "path", line[2])
             ELSE LET m == Add(MakeStatsJsonMap(EmptyMap, path, statOk),
                               "type", "symlink")
                      c == IF HasFlag(ot, "C")
                           THEN Add(Add(m, "created", JsonBool(TRUE)),
                                    "target", line[3])
                           ELSE Add(m, "created", JsonBool(FALSE))
                  IN  Add(c, "stat", flag("S"))

NoItem == <<>>

\* "ifstream serialFile{serialFileName}": opened, or "return false".
JsonOpen ==
    /\ jpc = "open"
    /\ \E ok \in BOOLEAN :
          IF ok THEN jpc' = "batch" /\ jsonResult' = jsonResult
                ELSE jpc' = "returned" /\ jsonResult' = "false"
    /\ UNCHANGED <<done, jsonFileCount, itemCount, lastItem, lastLine,
                   lastStatOk, docs, nClass, nSkipped>>
    /\ UNCHANGED <<bvars, rvars>>

\* "while (diffItems.size() < 1000)".
BatchOpen(n) == n < BATCH_LIMIT

\* An iteration of the inner loop that reads a record of a known entity
\* type: an event is built (the lstat of a create/modify record succeeds or
\* fails) and pushed to diffItems.
JsonRecord ==
    /\ jpc = "batch"
    /\ BatchOpen(itemCount)
    /\ nClass < MaxRecords
    /\ \E line \in JLineSet, statOk \in BOOLEAN :
          /\ Classified(line)
          /\ IsCreateModify(line) \/ statOk
          /\ lastItem' = EventOf(line, statOk)
          /\ lastLine' = line
          /\ lastStatOk' = statOk
    /\ itemCount' = itemCount + 1
    /\ nClass' = nClass + 1
    /\ UNCHANGED <<jpc, done, jsonFileCount, docs, nSkipped, jsonResult>>
    /\ UNCHANGED <<bvars, rvars>>

\* An iteration of the inner loop that reads a record of an unknown entity
\* type: nothing is pushed.
JsonSkip ==
    /\ jpc = "batch"
    /\ BatchOpen(itemCount)
    /\ nSkipped < MaxSkipped
    /\ \E line \in JLineSet : ~Classified(line)
    /\ nSkipped' = nSkipped + 1
    /\ UNCHANGED <<jpc, done, jsonFileCount, itemCount, lastItem, lastLine,
                   lastStatOk, docs, nClass, jsonResult>>
    /\ UNCHANGED <<bvars, rvars>>

\* getline fails in the inner loop: "done = true; break".
JsonEndOfInput ==
    /\ jpc = "batch"
    /\ BatchOpen(itemCount)
    /\ done' = TRUE
    /\ jpc' = "flush"
    /\ UNCHANGED <<jsonFileCount, itemCount, lastItem, lastLine, lastStatOk,
                   docs, nClass, nSkipped, jsonResult>>
    /\ UNCHANGED <<bvars, rvars>>

\* The inner loop ends because the batch is full.
JsonBatchFull ==
    /\ jpc = "batch"
    /\ ~BatchOpen(itemCount)
    /\ jpc' = "flush"
    /\ UNCHANGED <<done, jsonFileCount, itemCount, lastItem, lastLine,
                   lastStatOk, docs, nClass, nSkipped, jsonResult>>
    /\ UNCHANGED <<bvars, rvars>>

\* Mutant of ShouldWrite: a document is written for every batch.
ShouldWriteAlways(n) == TRUE

\* "if (diffItems.size() > 0)".
ShouldWrite(n) == n > 0

\* The end of an outer iteration: a batch that is not empty is dumped to
\* <jsonFileCount>.json (if that file cannot be created: "return false"),
\* the counter is incremented; then "return true" if done, else the next
\* iteration starts with a new diffItems.
JsonFlush ==
    /\ jpc = "flush"
    /\ \E ok \in BOOLEAN :
          IF ShouldWrite(itemCount) /\ ~ok
          THEN /\ jpc' = "returned"
               /\ jsonResult' = "false"
               /\ UNCHANGED <<jsonFileCount, itemCount, lastItem, lastLine,
                              lastStatOk, docs>>
          ELSE /\ ok
               /\ docs' = IF ShouldWrite(itemCount)
                          THEN jsonFileCount :> itemCount @@ docs
                          ELSE docs
               /\ jsonFileCount' = jsonFileCount + 1
               /\ itemCount' = 0
               /\ lastItem' = NoItem
               /\ lastLine' = <<>>
               /\ lastStatOk' = TRUE
               /\ IF done THEN jpc' = "returned" /\ jsonResult' = "true"
                          ELSE jpc' = "batch" /\ jsonResult' = jsonResult
    /\ UNCHANGED <<done, nClass, nSkipped>>
    /\ UNCHANGED <<bvars, rvars>>

JNext ==
    \/ JsonOpen
    \/ JsonRecord
    \/ JsonSkip
    \/ JsonEndOfInput
    \/ JsonBatchFull
    \/ JsonFlush

-----------------------------------------------------------------------------
(* Specifications: one per stage.  All start in the state in which         *)
(* GetSnapshotDiff has validated its arguments; a stage's specification    *)
(* takes the steps of that stage only.                                     *)

Init ==
    /\ bpc = "start"
    /\ nFiles = 0
    /\ fileNum = 0
    /\ raw = <<>>
    /\ atEnd = FALSE
    /\ buckets = <<>>
    /\ handles = {}
    /\ bktResult = "none"
    /\ readErr = FALSE
    /\ serRemaining = {}
    /\ serialized = <<>>
    /\ serFail = FALSE
    /\ serResult = "none"
    /\ exitCode = -1
    /\ rpc = "loop"
    /\ eof = FALSE
    /\ readNum = 0
    /\ startPoint = "0"
    /\ numRetryReads = 0
    /\ numRetries = 0
    /\ openCalls = 0
    /\ lastErrno = "none"
    /\ rawFiles = <<>>
    /\ localLines = <<>>
    /\ localOpen = FALSE
    /\ fetched = <<>>
    /\ badPage = "none"
    /\ pageBad = 0
    /\ opened = 0
    /\ readResult = -2
    /\ jpc = "open"
    /\ done = FALSE
    /\ jsonFileCount = 0
    /\ itemCount = 0
    /\ lastItem = NoItem
    /\ lastLine = <<>>
    /\ lastStatOk = TRUE
    /\ docs = <<>>
    /\ nClass = 0
    /\ nSkipped = 0
    /\ jsonResult = "none"

SpecRead == Init /\ [][RNext]_vars

SpecBucket == Init /\ [][BNext]_vars

SpecJson == Init /\ [][JNext]_vars

-----------------------------------------------------------------------------
(* Properties of BucketizeDiff and SerializeBuckets (SpecBucket).          *)

\* The raw line a bucket entry was made from, and its level token's value.
SourceLine(e) == raw[e.src[1] + 1][e.src[2]]
LevelOf(e) == Stoi(SourceLine(e)[1])

\* The place of e1 is before the place of e2 in page order, then line order.
ReadBefore(e1, e2) ==
    \/ e1.src[1] < e2.src[1]
    \/ e1.src[1] = e2.src[1] /\ e1.src[2] < e2.src[2]

\* C1: in serialized_diff every payload line of a level L1 stands before
\* every payload line of a level L2 > L1.
C1_LevelOrder ==
    \A i, j \in 1..Len(serialized) :
        LevelOf(serialized[i]) < LevelOf(serialized[j]) => i < j

\* C1 witness: the Serializer has returned success and serialized_diff holds
\* lines of two levels, the line of the smaller level read after the other.
C1_Witness ==
    /\ serResult = "true"
    /\ \E i, j \in 1..Len(serialized) :
          /\ LevelOf(serialized[i]) < LevelOf(serialized[j])
          /\ ReadBefore(serialized[j], serialized[i])

\* A raw line whose payload is exactly EOB or EOF.
SentinelLine(line) ==
    Len(line) = 3 /\ (line[3] = "EOB" \/ line[3] = "EOF")

\* The number of lines of a raw file that precede its first sentinel line.
DataPrefixLen(lines) ==
    IF \E i \in 1..Len(lines) : SentinelLine(lines[i])
    THEN MinOf({i \in 1..Len(lines) : SentinelLine(lines[i])}) - 1
    ELSE Len(lines)

\* The payloads of raw file f (from 0) before its first sentinel line, each
\* tagged with its place.
DataOfFile(f) ==
    [i \in 1..DataPrefixLen(raw[f + 1]) |->
        [src |-> <<f, i>>,
         text |-> SubSeq(raw[f + 1][i], 3, Len(raw[f + 1][i]))]]

\* All of them, in page order and then line order.
DataOfAllFiles == Flatten([f \in 1..Len(raw) |-> DataOfFile(f - 1)])

\* Those of one level.
DataOfLevel(lvl) == SelectSeq(DataOfAllFiles, LAMBDA e : LevelOf(e) = lvl)

\* The content of the bucket file of a level (no file: no content).
BucketOfLevel(lvl) ==
    IF lvl + 513 \in DOMAIN buckets THEN buckets[lvl + 513] ELSE <<>>

LevelsFed == {Stoi(line[1]) : line \in BLineSet}

\* C5: when BucketizeDiff has read all raw files to their end, each level's
\* bucket file holds exactly the payloads of that level's lines that precede
\* the first sentinel line of their raw file, in page order then line order.
C5_LosslessBuckets ==
    (bktResult = "true" /\ ~readErr) =>
        /\ \A lvl \in LevelsFed : BucketOfLevel(lvl) = DataOfLevel(lvl)
        /\ DOMAIN buckets \subseteq {lvl + 513 : lvl \in LevelsFed}

\* C5 witness: BucketizeDiff has returned success after two raw files, a
\* bucket holds lines of both, and a raw file has a line after its sentinel.
C5_Witness ==
    /\ bktResult = "true"
    /\ ~readErr
    /\ \E k \in DOMAIN buckets :
          \E i, j \in 1..Len(buckets[k]) :
              buckets[k][i].src[1] < buckets[k][j].src[1]
    /\ \E f \in 1..Len(raw) : DataPrefixLen(raw[f]) + 1 < Len(raw[f])

\* C7: BucketizeDiff returns failure whenever a raw file cannot be opened or
\* its read stops without a clean end of file, and GetSnapshotDiff then
\* returns 1 without running the Serializer.
C7_FailsOnIncompleteRead ==
    /\ bktResult = "true" => (~readErr /\ Len(raw) = nFiles)
    /\ (readErr /\ bpc = "exit") => (exitCode = 1 /\ serResult = "none")

\* C8: when SerializeBuckets has returned, with success or with failure, no
\* bucket stream is open any more.
C8_HandlesReleased ==
    bpc = "serReturned" => handles = {}

\* The entries written to any bucket file.
EntriesWritten == UNION {{bs[i] : i \in 1..Len(bs)} : bs \in {buckets[k] : k \in DOMAIN buckets}}

\* C10: the bucket keys are exactly the levels (plus 513) of the payload
\* lines written, and no bucket file is empty.
C10_BucketsOnlyForPayload ==
    /\ DOMAIN buckets = {LevelOf(e) + 513 : e \in EntriesWritten}
    /\ \A k \in DOMAIN buckets : buckets[k] # <<>>

\* The contents of the bucket files of `keys`, one after the other in
\* ascending key order.
RECURSIVE ConcatAscending(_)
ConcatAscending(keys) ==
    IF keys = {} THEN <<>>
    ELSE LET k == MinOf(keys)
         IN  buckets[k] \o ConcatAscending(keys \ {k})

\* C13: when SerializeBuckets has returned success, serialized_diff is the
\* concatenation of the contents of all bucket files in ascending key order,
\* whether or not some bucket file is empty.
C13_SerializedIsConcatenation ==
    serResult = "true" => serialized = ConcatAscending(DOMAIN buckets)

-----------------------------------------------------------------------------
(* Properties of OpenStreamUnreliable and ReadRawDiff (SpecRead).          *)

\* OpenStreamUnreliable has given up after open() failed with ENOENT; as a
\* success or another error ends its loop, every attempt failed like that.
GaveUpOnNotFound == rpc = "failOpen" /\ lastErrno = "ENOENT"

\* C3 as stated: with ENOENT on every attempt, OpenStreamUnreliable makes
\* exactly MAX_RETRIES = 10 open attempts and then fails.
C3_TenAttempts ==
    GaveUpOnNotFound => openCalls = MAX_RETRIES

\* C3 amended: with ENOENT on every attempt, OpenStreamUnreliable makes
\* exactly MAX_RETRIES + 1 = 11 open attempts (the first one and 10
\* retries) and then fails; it never makes a 12th.
C3_ElevenAttempts ==
    /\ GaveUpOnNotFound => openCalls = MAX_RETRIES + 1
    /\ openCalls <= MAX_RETRIES + 1

\* C3 witness: OpenStreamUnreliable has failed after 11 attempts, all of
\* them ENOENT.
C3_Witness == GaveUpOnNotFound /\ openCalls = 11

\* The third token of a line is a sentinel.
ThirdIsSentinel(line) == line[3] = "EOB" \/ line[3] = "EOF"

\* A page whose last line, and no other, is the sentinel `tok`.
EndsWith(page, tok) ==
    /\ page # <<>>
    /\ page[Len(page)][3] = tok
    /\ \A i \in 1..(Len(page) - 1) : ~ThirdIsSentinel(page[i])

\* The pages copied so far are a stream as C6 describes it, or the start of
\* one: each ends with EOB, except that the last may end with EOF instead.
StreamSoFar ==
    /\ \A i \in 1..(Len(fetched) - 1) : EndsWith(fetched[i].page, "EOB")
    /\ Len(fetched) > 0 =>
          \/ EndsWith(fetched[Len(fetched)].page, "EOB")
          \/ EndsWith(fetched[Len(fetched)].page, "EOF")

\* C6: on a stream of k pages, the first k-1 ending with EOB and the last
\* with EOF, read without a failure, ReadRawDiff opens exactly k pages,
\* writes raw files 0..k-1 with file i holding page i, returns k, and opens
\* no page after the one that ends with EOF.
C6_PaginationStopsAtEof ==
    (StreamSoFar /\ numRetryReads = 0) =>
        LET k == Len(fetched)
        IN  /\ \A i \in 1..k : /\ fetched[i].num = i - 1
                               /\ rawFiles[i - 1] = fetched[i].page
            /\ DOMAIN rawFiles \subseteq 0..k
            /\ rpc = "done" =>
                  /\ k >= 1
                  /\ EndsWith(fetched[k].page, "EOF")
                  /\ readResult = k
                  /\ opened = k
                  /\ DOMAIN rawFiles = 0..(k - 1)
            /\ (k >= 1 /\ EndsWith(fetched[k].page, "EOF")) =>
                  /\ opened = k
                  /\ rpc \in {"parse", "loop", "done", "failParse"}

\* C6 witness: ReadRawDiff has returned 2 after a page ending with EOB and a
\* page ending with EOF, both with data lines.
C6_Witness ==
    /\ rpc = "done"
    /\ numRetryReads = 0
    /\ Len(fetched) = 2
    /\ EndsWith(fetched[1].page, "EOB") /\ Len(fetched[1].page) > 1
    /\ EndsWith(fetched[2].page, "EOF") /\ Len(fetched[2].page) > 1
    /\ readResult = 2

\* C9: the read-retry bound applies per page: the run fails on a bad read
\* only after one and the same page (the page of the running cookie) has
\* read bad at least MAX_RETRIES + 1 times, at its first read and at 10
\* retries; bad reads of earlier pages do not count.
C9_RetriesPerPage ==
    rpc = "failRead" => pageBad >= MAX_RETRIES + 1

\* The lines of a page up to, not including, its first sentinel line: the
\* lines that C12 has move the cookie.
BeforeSentinel(page) ==
    IF \E i \in 1..Len(page) : ThirdIsSentinel(page[i])
    THEN SubSeq(page, 1, MinOf({i \in 1..Len(page) : ThirdIsSentinel(page[i])}) - 1)
    ELSE page

\* The cookie C12 prescribes after the parse of `page`, opened with `cookie`:
\* the second token of the last line before the first sentinel line, or the
\* same cookie if there is no such line.
CookieAfter(cookie, page) ==
    LET moving == BeforeSentinel(page)
    IN  IF moving = <<>> THEN cookie ELSE moving[Len(moving)][2]

\* The cookie C12 prescribes for the next page to open.
CookieDue ==
    IF fetched = <<>> THEN "0"
    ELSE CookieAfter(fetched[Len(fetched)].cookie, fetched[Len(fetched)].page)

\* C12: the first page is opened with cookie "0"; every page after a copied
\* page is opened with the second token of the last line that precedes the
\* first EOB/EOF line of that page, and with the same cookie again if the
\* page starts with its sentinel; lines after the sentinel are not parsed.
C12_CookieHandling ==
    /\ Len(fetched) > 0 => fetched[1].cookie = "0"
    /\ \A i \in 2..Len(fetched) :
          fetched[i].cookie = CookieAfter(fetched[i - 1].cookie, fetched[i - 1].page)
    /\ rpc \in {"loop", "open", "openLocal", "copy"} => startPoint = CookieDue
    /\ (rpc = "parse" /\ ~localOpen) => startPoint = CookieDue

\* C12 witness: three pages were copied: one with data lines before its EOB,
\* opened with "0"; one that starts with EOB, opened with the second token of
\* the first page's last data line; and a third opened with that cookie again.
C12_Witness ==
    /\ Len(fetched) = 3
    /\ fetched[1].cookie = "0"
    /\ EndsWith(fetched[1].page, "EOB") /\ Len(fetched[1].page) = 3
    /\ fetched[2].cookie = fetched[1].page[2][2]
    /\ fetched[2].page[1][3] = "EOB"
    /\ fetched[3].cookie = fetched[2].cookie

\* C14: every page copied completely is kept in a raw file of its own: the
\* i-th such page went to file i-1 and that file still holds it, whatever
\* was fetched later; between two iterations of the pagination loop the
\* page counter is the number of pages copied, and so is the count returned
\* on success.
C14_PagesRetained ==
    /\ \A i \in 1..Len(fetched) :
          /\ fetched[i].num = i - 1
          /\ (i - 1) \in DOMAIN rawFiles
          /\ rawFiles[i - 1] = fetched[i].page
    /\ rpc = "loop" => readNum = Len(fetched)
    /\ rpc = "done" => readResult = Len(fetched)

-----------------------------------------------------------------------------
(* Properties of GenerateJSON (SpecJson).                                  *)

\* The character c occurs in the operation code.
HasChar(cs, c) == \E i \in 1..Len(cs) : cs[i] = c

\* C2: for a record that is neither a DELETE nor a RENAME, each boolean of
\* the event equals the presence of its flag character in opType; a symlink
\* event has a target exactly when created is true.
C2_FlagsDecoded ==
    LET et == EntryType(lastLine[1])
        ot == OpType(lastLine[1])
    IN  (lastItem # NoItem /\ ot \notin {DELETE_, RENAME_}) =>
           /\ et \in {FILE_, DIR_} =>
                 /\ lastItem["created"] = HasChar(ot, "C")
                 /\ lastItem["modified"] = HasChar(ot, "M")
                 /\ lastItem["stat"] = HasChar(ot, "S")
                 /\ lastItem["xattr"] = HasChar(ot, "X")
           /\ et = SYM_ =>
                 /\ lastItem["created"] = HasChar(ot, "C")
                 /\ lastItem["stat"] = HasChar(ot, "S")
                 /\ ("target" \in DOMAIN lastItem) = lastItem["created"]

\* ceil(n / 1000).
BatchesOf(n) == (n + 999) \div 1000

\* C4: for N > 0 records of a known entity type, among any records of other
\* types, GenerateJSON writes the documents 0 .. ceil(N/1000)-1, each of
\* 1000 events but the last, which holds N mod 1000 events (1000 if that is
\* 0); no document is ever empty.
C4_BatchSizing ==
    /\ \A i \in DOMAIN docs : docs[i] > 0
    /\ (jsonResult = "true" /\ nClass > 0) =>
          LET k == BatchesOf(nClass)
          IN  /\ DOMAIN docs = 0..(k - 1)
              /\ \A i \in 0..(k - 2) : docs[i] = 1000
              /\ docs[k - 1] = IF nClass % 1000 = 0 THEN 1000 ELSE nClass % 1000

\* C4 witness: GenerateJSON has returned success after 2000 records of a
\* known entity type and some records of an unknown one.
C4_Witness ==
    /\ jsonResult = "true"
    /\ nClass = 2000
    /\ nSkipped > 0
    /\ DOMAIN docs = {0, 1}

\* The keys MakeStatsJsonMap adds from the lstat result.
StatKeys == {"size", "atime", "ctime", "mtime"}

\* The flag booleans GenerateJSON adds to a create/modify event.
FlagKeys(line) ==
    IF EntryType(line[1]) = SYM_ THEN {"created", "stat"}
    ELSE {"created", "modified", "stat", "xattr"}

\* C11: the event of a create/modify record whose stat lookup failed is
\* appended to the batch (and counted in it) with its type, its flag
\* booleans and its path, and with none of size, atime, ctime, mtime.
C11_StatFailureKeepsPath ==
    (lastItem # NoItem /\ IsCreateModify(lastLine) /\ ~lastStatOk) =>
        /\ itemCount >= 1
        /\ "type" \in DOMAIN lastItem
        /\ FlagKeys(lastLine) \subseteq DOMAIN lastItem
        /\ "path" \in DOMAIN lastItem
        /\ lastItem["path"] = lastLine[2]
        /\ DOMAIN lastItem \cap StatKeys = {}

=============================================================================
